---- MODULE Spec2Model ----
(***************************************************************************)
(* Model of browser_use/browser/browser.py: the Browser handle manager.    *)
(*                                                                         *)
(* A Browser holds self.driver (None or a Drission driver).  The           *)
(* coroutines get_driver, new_context and close run on the event loop and  *)
(* suspend at asyncio.to_thread while the blocking driver call             *)
(* (_create_driver, driver.quit) runs on a worker thread.  __del__ is the  *)
(* finalizer.  Each completed call is recorded in hist, so that claims     *)
(* about sequences of calls are state predicates.                          *)
(***************************************************************************)
EXTENDS Integers, Sequences, FiniteSets, TLC

\* Python's None as the value of self.driver; drivers are 1, 2, ...
None == 0

\* Bounds of the model.
NCallers == 2      \* tasks of the caller that may invoke the public coroutines
MaxCalls == 4      \* calls (the finalizer included) in a run of calls made in turn
MaxConcCalls == 3  \* calls (the finalizer included) in a run of concurrent tasks
MaxFairCalls == 2  \* the same, in the runs checked for progress

\* The task created by loop.create_task(self.close()) in __del__.
BG == 0
Callers == 1..NCallers
Tasks == {BG} \cup Callers

VARIABLES
    config,    \* self.config
    driver,    \* self.driver
    nextId,    \* number of drivers constructed so far (Drission(...) returned)
    pc,        \* per task: where the coroutine it runs stands
    job,       \* per task: the asyncio.to_thread job it awaits
    cur,       \* per task: the record of the call in progress
    hist,      \* the completed calls, in order of return
    quitCalls, \* per driver: how often driver.quit was invoked
    quitOk,    \* drivers whose quit returned normally
    stores,    \* the drivers assigned to self.driver, in order of assignment
    overlapped,\* some call was made while another was in progress
    deleted    \* __del__ has run

vars == <<config, driver, nextId, pc, job, cur, hist, quitCalls, quitOk, stores,
          overlapped, deleted>>

Drivers == 0..(MaxCalls + 1)

\* BrowserConfig: the values of its fields.  extra_chromium_args is a list of
\* strings, chrome_instance_path a string or None, proxy a dict or None.
Configs ==
    [headless : BOOLEAN,
     disable_security : BOOLEAN,
     extra_chromium_args : {<< >>, <<"--no-sandbox">>},
     chrome_instance_path : {"None", "/usr/bin/chromium"},
     proxy : {"None", "server=http://proxy:8080"}]

\* BrowserConfig(): the defaults of the fields.
DefaultConfig ==
    [headless |-> FALSE,
     disable_security |-> TRUE,
     extra_chromium_args |-> << >>,
     chrome_instance_path |-> "None",
     proxy |-> "None"]

\* _create_driver, lines 31-37: the options passed to Drission.
OptionsIgnoreHeadless(c) ==
    [headless |-> FALSE,
     disable_security |-> c.disable_security,
     extra_chromium_args |-> c.extra_chromium_args,
     chrome_instance_path |-> c.chrome_instance_path,
     proxy |-> c.proxy]

Options(c) ==
    [headless |-> c.headless,
     disable_security |-> c.disable_security,
     extra_chromium_args |-> c.extra_chromium_args,
     chrome_instance_path |-> c.chrome_instance_path,
     proxy |-> c.proxy]

\* How the blocking driver calls are made: lines 28 and 52 hand them to
\* asyncio.to_thread.
CreateDispatch == "to_thread"

QuitDispatchDirect == "call"

QuitDispatch == "to_thread"

\* asyncio.to_thread runs the function on a thread of the default executor;
\* a plain call runs it on the thread of the event loop.
RunsOn(dispatch) == IF dispatch = "to_thread" THEN "worker" ELSE "loop"

NoJob == [kind |-> "none", d |-> None, res |-> "none", value |-> None,
          thread |-> "none"]

\* The record of one call: the state before and after, what it did, how it
\* ended.  ctor/quit/gc count the constructor, quit and gc.collect calls made
\* by the call; logs are the logger.debug messages it emitted.
NewEntry(op, pre) ==
    [op |-> op, pre |-> pre, post |-> pre,
     outcome |-> "running", value |-> None,
     ctor |-> 0, ctorRes |-> "none",
     quit |-> 0, quitOn |-> None, quitRes |-> "none",
     gc |-> 0, logs |-> {}, loop |-> "na", sched |-> 0,
     ctorThread |-> "none", quitThread |-> "none",
     options |-> {},    \* the options mappings passed to Drission
     gcDriver |-> {},   \* self.driver when gc.collect() ran
     retQuits |-> 0]    \* quit invocations so far on the driver returned

NoEntry == NewEntry("none", None)

\* Calls started so far: finished ones and those in progress.
Started == Len(hist) + Cardinality({t \in Tasks : pc[t] \notin {"idle", "scheduled"}})

Quiescent == \A t \in Tasks : pc[t] = "idle"

\* The event loop's thread is not inside a blocking driver call.
LoopFree ==
    \A t \in Tasks :
        pc[t] \in {"await_create", "constructed", "await_quit"} => job[t].thread # "loop"

\* The state after Browser.__init__, but for self.config.
Constructed ==
    /\ driver = None
    /\ nextId = 0
    /\ pc = [t \in Tasks |-> "idle"]
    /\ job = [t \in Tasks |-> NoJob]
    /\ cur = [t \in Tasks |-> NoEntry]
    /\ hist = << >>
    /\ quitCalls = [d \in Drivers |-> 0]
    /\ quitOk = {}
    /\ stores = << >>
    /\ overlapped = FALSE
    /\ deleted = FALSE

\* Browser(): the default configuration.
Init == config = DefaultConfig /\ Constructed

\* Another task is inside a call.
Overlaps(t) == \E u \in Tasks \ {t} : pc[u] \notin {"idle", "scheduled"}

\* Fewer than n calls were made.
Budget(n) == Started < n

\* The tasks of the caller are interchangeable: a call is made by the first
\* of them that is not inside a call.
FirstFree(t) ==
    /\ t \in Callers
    /\ pc[t] = "idle"
    /\ \A u \in Callers : u < t => pc[u] # "idle"

\* A caller may start a public call: the object is alive and the event loop
\* can run the caller's task.
CanCall(t) ==
    /\ FirstFree(t)
    /\ ~deleted
    /\ LoopFree

(***************************************************************************)
(* get_driver / new_context / _create_driver                               *)
(***************************************************************************)

\* get_driver, line 44: if self.driver is None
GetDriverNeedsCreateAlways(d) == TRUE

GetDriverNeedsCreate(d) == d = None

\* The reference Drission(options=options) returns: a fresh object.
NewDriverIdStale(n) == 1

NewDriverId(n) == n + 1

\* _create_driver, line 38: self.driver is assigned only if Drission returned.
DriverAfterCreateKeepsFirst(d, res, new) ==
    IF res = "ok" /\ d = None THEN new ELSE d

DriverAfterCreate(d, res, new) == IF res = "ok" THEN new ELSE d

\* get_driver/new_context, lines 28 and 45: the awaited to_thread result is
\* returned, an exception of the job propagates (no try around it).
CreateOutcomeSwallows(res) == "returned"

CreateOutcome(res) == IF res = "ok" THEN "returned" ELSE "raised"

\* get_driver with a driver present: returns it at once, without suspending.
\* Without one: awaits new_context(), which awaits to_thread(_create_driver).
CallGetDriver(t) ==
    /\ CanCall(t)
    /\ overlapped' = (overlapped \/ Overlaps(t))
    /\ LET e == NewEntry("get_driver", driver) IN
       IF GetDriverNeedsCreate(driver)
       THEN /\ pc' = [pc EXCEPT ![t] = "await_create"]
            /\ cur' = [cur EXCEPT ![t] = e]
            /\ job' = [job EXCEPT ![t] = [NoJob EXCEPT !.kind = "create",
                                              !.thread = RunsOn(CreateDispatch)]]
            /\ hist' = hist
       ELSE /\ hist' = Append(hist, [e EXCEPT !.outcome = "returned",
                                              !.value = driver,
                                              !.retQuits = quitCalls[driver]])
            /\ UNCHANGED <<pc, cur, job>>
    /\ UNCHANGED <<config, driver, nextId, quitCalls, quitOk, stores, deleted>>

\* new_context: always constructs.
CallNewContext(t) ==
    /\ CanCall(t)
    /\ pc' = [pc EXCEPT ![t] = "await_create"]
    /\ overlapped' = (overlapped \/ Overlaps(t))
    /\ cur' = [cur EXCEPT ![t] = NewEntry("new_context", driver)]
    /\ job' = [job EXCEPT ![t] = [NoJob EXCEPT !.kind = "create",
                                      !.thread = RunsOn(CreateDispatch)]]
    /\ UNCHANGED <<config, driver, nextId, hist, quitCalls, quitOk, stores, deleted>>

\* _create_driver, lines 31-38, on the thread the job runs on: the options
\* are built from self.config and Drission(options=options) returns a new
\* driver or raises.
WorkerCreateDriver(t) ==
    /\ pc[t] = "await_create"
    /\ \E res \in {"ok", "raise"} :
         LET new == NewDriverId(nextId) IN
         /\ nextId' = IF res = "ok" THEN nextId + 1 ELSE nextId
         /\ job' = [job EXCEPT ![t] = [@ EXCEPT !.res = res,
                        !.value = IF res = "ok" THEN new ELSE None]]
         /\ cur' = [cur EXCEPT ![t] = [@ EXCEPT !.ctor = @ + 1,
                        !.ctorRes = res,
                        !.ctorThread = job[t].thread,
                        !.options = @ \cup {Options(config)}]]
         /\ pc' = [pc EXCEPT ![t] = IF res = "ok" THEN "constructed" ELSE "create_done"]
    /\ UNCHANGED <<config, overlapped, driver, hist, quitCalls, quitOk, stores, deleted>>

\* _create_driver, lines 38-40: the driver constructed is assigned to
\* self.driver, logged and returned.  Other threads run between the
\* constructor's return and the assignment.
WorkerStoreDriver(t) ==
    /\ pc[t] = "constructed"
    /\ driver' = DriverAfterCreate(driver, job[t].res, job[t].value)
    /\ stores' = Append(stores, job[t].value)
    /\ cur' = [cur EXCEPT ![t] = [@ EXCEPT !.logs = @ \cup {"Driver created"}]]
    /\ pc' = [pc EXCEPT ![t] = "create_done"]
    /\ UNCHANGED <<config, overlapped, nextId, job, hist, quitCalls, quitOk, deleted>>

\* The coroutine awaiting a to_thread job is resumed once the job has
\* finished, by returning or by raising.
ResumableOnSuccess(j) == j.res = "ok"

Resumable(j) == j.res \in {"ok", "raise"}

\* The awaiting coroutine resumes with the job's result.
ResumeCreate(t) ==
    /\ pc[t] = "create_done"
    /\ Resumable(job[t])
    /\ LoopFree
    /\ hist' = Append(hist, [cur[t] EXCEPT
                    !.outcome = CreateOutcome(job[t].res),
                    !.value = IF CreateOutcome(job[t].res) = "returned"
                              THEN job[t].value ELSE None,
                    !.retQuits = quitCalls[job[t].value],
                    !.post = driver])
    /\ pc' = [pc EXCEPT ![t] = "idle"]
    /\ job' = [job EXCEPT ![t] = NoJob]
    /\ cur' = [cur EXCEPT ![t] = NoEntry]
    /\ UNCHANGED <<config, overlapped, driver, nextId, quitCalls, quitOk, stores, deleted>>

(***************************************************************************)
(* close                                                                   *)
(***************************************************************************)

\* close, line 51: if self.driver is not None
CloseNeedsQuitAlways(d) == TRUE

CloseNeedsQuit(d) == d # None

\* close, lines 52-53: self.driver = None is reached only if the awaited quit
\* did not raise.
DriverAfterCloseKeeps(d, res) == d

DriverAfterCloseClears(d, res) == None

DriverAfterClose(d, res) == IF res = "ok" THEN None ELSE d

\* close, lines 55-56: except Exception catches what the quit raised.
CloseOutcomePropagates(res) == IF res = "ok" THEN "returned" ELSE "raised"

CloseOutcome(res) == "returned"

\* close, lines 54 and 56: the message logged.
CloseLog(res) ==
    IF res = "ok" THEN "Browser closed successfully"
    ELSE "Failed to close browser properly"

\* close is entered by a caller, or by the task __del__ scheduled.
CanClose(t) ==
    \/ CanCall(t)
    \/ t = BG /\ pc[t] = "scheduled" /\ LoopFree

\* close with no driver: nothing but the finally clause (gc.collect).
\* With a driver: awaits to_thread(self.driver.quit), the method bound to the
\* driver stored when the call is made.
CallClose(t) ==
    /\ CanClose(t)
    /\ overlapped' = (overlapped \/ Overlaps(t))
    /\ LET e == NewEntry("close", driver) IN
       IF CloseNeedsQuit(driver)
       THEN /\ pc' = [pc EXCEPT ![t] = "await_quit"]
            /\ cur' = [cur EXCEPT ![t] = e]
            /\ job' = [job EXCEPT ![t] = [NoJob EXCEPT !.kind = "quit", !.d = driver,
                                              !.thread = RunsOn(QuitDispatch)]]
            /\ hist' = hist
       ELSE /\ hist' = Append(hist, [e EXCEPT !.outcome = "returned", !.gc = 1,
                                              !.gcDriver = {driver}])
            /\ pc' = [pc EXCEPT ![t] = "idle"]
            /\ UNCHANGED <<cur, job>>
    /\ UNCHANGED <<config, driver, nextId, quitCalls, quitOk, stores, deleted>>

\* driver.quit on the worker thread: returns or raises.
WorkerQuit(t) ==
    /\ pc[t] = "await_quit"
    /\ \E res \in {"ok", "raise"} :
         /\ job' = [job EXCEPT ![t] = [@ EXCEPT !.res = res]]
         /\ quitOk' = IF res = "ok" THEN quitOk \cup {job[t].d} ELSE quitOk
         /\ cur' = [cur EXCEPT ![t] = [@ EXCEPT !.quit = @ + 1,
                        !.quitOn = job[t].d, !.quitRes = res,
                        !.quitThread = job[t].thread]]
    /\ quitCalls' = [quitCalls EXCEPT ![job[t].d] = @ + 1]
    /\ pc' = [pc EXCEPT ![t] = "quit_done"]
    /\ UNCHANGED <<config, overlapped, driver, nextId, hist, stores, deleted>>

\* close resumes: clears the reference and logs success, or catches and logs
\* the failure; then the finally clause runs gc.collect().
ResumeClose(t) ==
    /\ pc[t] = "quit_done"
    /\ Resumable(job[t])
    /\ LoopFree
    /\ driver' = DriverAfterClose(driver, job[t].res)
    /\ hist' = Append(hist, [cur[t] EXCEPT
                    !.outcome = CloseOutcome(job[t].res),
                    !.logs = @ \cup {CloseLog(job[t].res)},
                    !.gc = @ + 1,
                    !.gcDriver = @ \cup {driver'},
                    !.post = driver'])
    /\ pc' = [pc EXCEPT ![t] = "idle"]
    /\ job' = [job EXCEPT ![t] = NoJob]
    /\ cur' = [cur EXCEPT ![t] = NoEntry]
    /\ UNCHANGED <<config, overlapped, nextId, quitCalls, quitOk, stores, deleted>>

(***************************************************************************)
(* __del__                                                                 *)
(***************************************************************************)

\* The situations the finalizer can run in: on a thread with a running event
\* loop, or on a thread with none.
LoopSituations == {"none", "running"}

\* __del__, line 63: if self.driver
DelAttemptsCleanup(d) == d # None

\* __del__, line 65: asyncio.get_running_loop() returns the running loop of
\* the current thread and raises RuntimeError when there is none.
GetRunningLoop(loop) == IF loop = "running" THEN "loop" ELSE "RuntimeError"

\* __del__, line 66: loop.is_running() of the loop obtained on line 65.
IsRunningNever(loop) == FALSE

IsRunning(loop) == loop = "running"

\* __del__, lines 70-71: except Exception catches and logs.
DelOutcomePropagates(exc) == IF exc = "none" THEN "returned" ELSE "raised"

DelOutcome(exc) == "returned"

\* The branch of __del__ taken.
DelPath(d, loop) ==
    IF ~DelAttemptsCleanup(d) THEN "nothing"
    ELSE IF GetRunningLoop(loop) = "RuntimeError" THEN "caught"
    ELSE IF IsRunning(loop) THEN "create_task"
    ELSE "run"

\* The finalizer runs once, when nothing refers to the object any more: no
\* coroutine of the object is in progress and no call follows.  On the "run"
\* branch asyncio.run(self.close()) executes close to completion.
Del ==
    /\ ~deleted
    /\ Quiescent
    /\ \E loop \in LoopSituations, res \in {"ok", "raise"} :
         LET path == DelPath(driver, loop)
             e == [NewEntry("__del__", driver) EXCEPT !.loop = loop]
         IN
         /\ path # "run" => res = "ok"
         /\ CASE path = "nothing" ->
                   /\ hist' = Append(hist, [e EXCEPT !.outcome = DelOutcome("none")])
                   /\ UNCHANGED <<driver, pc, quitCalls, quitOk>>
              [] path = "caught" ->
                   /\ hist' = Append(hist, [e EXCEPT
                                  !.outcome = DelOutcome("RuntimeError"),
                                  !.logs = {"Failed to cleanup browser in destructor"}])
                   /\ UNCHANGED <<driver, pc, quitCalls, quitOk>>
              [] path = "create_task" ->
                   /\ hist' = Append(hist, [e EXCEPT
                                  !.outcome = DelOutcome("none"), !.sched = 1])
                   /\ pc' = [pc EXCEPT ![BG] = "scheduled"]
                   /\ UNCHANGED <<driver, quitCalls, quitOk>>
              [] path = "run" ->
                   /\ driver' = DriverAfterClose(driver, res)
                   /\ quitCalls' = [quitCalls EXCEPT ![driver] = @ + 1]
                   /\ quitOk' = IF res = "ok" THEN quitOk \cup {driver} ELSE quitOk
                   /\ hist' = Append(hist, [e EXCEPT
                                  !.outcome = DelOutcome("none"),
                                  !.quit = 1, !.quitOn = driver, !.quitRes = res,
                                  !.quitThread = RunsOn(QuitDispatch),
                                  !.logs = {CloseLog(res)}, !.gc = 1,
                                  !.gcDriver = {driver'},
                                  !.post = driver'])
                   /\ pc' = pc
    /\ deleted' = TRUE
    /\ UNCHANGED <<config, overlapped, nextId, job, cur, stores>>

(***************************************************************************)
(* Specification: the calls are made one after another, each awaited       *)
(* before the next is made.                                                *)
(***************************************************************************)

\* No other task is inside a call.
Alone(t) == \A u \in Tasks \ {t} : pc[u] = "idle"

GetDriver == \E t \in Tasks : Budget(MaxCalls) /\ Alone(t) /\ CallGetDriver(t)
NewContext == \E t \in Tasks : Budget(MaxCalls) /\ Alone(t) /\ CallNewContext(t)
Close == \E t \in Tasks : (t = BG \/ Budget(MaxCalls)) /\ Alone(t) /\ CallClose(t)
Finalize == Budget(MaxCalls) /\ Del
WorkerCreate == \E t \in Tasks : WorkerCreateDriver(t)
WorkerStore == \E t \in Tasks : WorkerStoreDriver(t)
ResumeAfterCreate == \E t \in Tasks : ResumeCreate(t)
WorkerShutdown == \E t \in Tasks : WorkerQuit(t)
ResumeAfterQuit == \E t \in Tasks : ResumeClose(t)

Next ==
    \/ GetDriver
    \/ NewContext
    \/ Close
    \/ WorkerCreate
    \/ WorkerStore
    \/ ResumeAfterCreate
    \/ WorkerShutdown
    \/ ResumeAfterQuit
    \/ Finalize

Spec == Init /\ [][Next]_vars

(***************************************************************************)
(* Specification: the callers' tasks run concurrently on the event loop.   *)
(* A call may be made while other calls are suspended at their await.      *)
(***************************************************************************)

ConcGetDriver == \E t \in Tasks : Budget(MaxConcCalls) /\ CallGetDriver(t)
ConcNewContext == \E t \in Tasks : Budget(MaxConcCalls) /\ CallNewContext(t)
ConcClose == \E t \in Tasks : (t = BG \/ Budget(MaxConcCalls)) /\ CallClose(t)
ConcFinalize == Budget(MaxConcCalls) /\ Del

ConcNext ==
    \/ ConcGetDriver
    \/ ConcNewContext
    \/ ConcClose
    \/ WorkerCreate
    \/ WorkerStore
    \/ ResumeAfterCreate
    \/ WorkerShutdown
    \/ ResumeAfterQuit
    \/ ConcFinalize

ConcSpec == Init /\ [][ConcNext]_vars

\* The blocking driver calls return or raise, the executor runs the jobs
\* submitted to it, and the event loop resumes a coroutine whose awaited job
\* has finished.
Fairness ==
    \A t \in Tasks :
        /\ WF_vars(WorkerCreateDriver(t))
        /\ WF_vars(WorkerStoreDriver(t))
        /\ WF_vars(WorkerQuit(t))
        /\ WF_vars(ResumeCreate(t))
        /\ WF_vars(ResumeClose(t))

FairGetDriver == \E t \in Tasks : Budget(MaxFairCalls) /\ CallGetDriver(t)
FairNewContext == \E t \in Tasks : Budget(MaxFairCalls) /\ CallNewContext(t)
FairClose == \E t \in Tasks : (t = BG \/ Budget(MaxFairCalls)) /\ CallClose(t)
FairFinalize == Budget(MaxFairCalls) /\ Del

FairNext ==
    \/ FairGetDriver
    \/ FairNewContext
    \/ FairClose
    \/ WorkerCreate
    \/ WorkerStore
    \/ ResumeAfterCreate
    \/ WorkerShutdown
    \/ ResumeAfterQuit
    \/ FairFinalize

FairSpec == Init /\ [][FairNext]_vars /\ Fairness

\* Any configuration the caller may pass to Browser(config).
AnyConfigInit == config \in Configs /\ Constructed

AnyConfigSpec == AnyConfigInit /\ [][Next]_vars

TypeOK ==
    /\ driver \in Drivers
    /\ nextId \in Drivers
    /\ config \in Configs
    /\ Len(stores) <= MaxCalls
    /\ pc \in [Tasks -> {"idle", "scheduled", "await_create", "constructed", "create_done",
                         "await_quit", "quit_done"}]
    /\ quitOk \subseteq Drivers
    /\ deleted \in BOOLEAN
    /\ overlapped \in BOOLEAN
    /\ Len(hist) <= MaxCalls + 1

(***************************************************************************)
(* Properties                                                              *)
(***************************************************************************)

Idx == 1..Len(hist)

\* Drivers constructed and not shut down (no quit of theirs has returned).
Live == (1..nextId) \ quitOk

\* hist[i..j] are get_driver calls, the first made with no driver stored.
GetDriverRun(i, j) ==
    /\ i <= j
    /\ hist[i].pre = None
    /\ \A k \in i..j : hist[k].op = "get_driver"

\* What C1 says of a run of get_driver calls.
OneConstruction(i, j) ==
    /\ hist[i].ctor = 1
    /\ \A k \in i..j :
         /\ hist[k].outcome = "returned"
         /\ hist[k].value = hist[i].value
         /\ hist[k].value # None
    /\ \A k \in (i + 1)..j :
         /\ hist[k].ctor = 0
         /\ hist[k].quit = 0
         /\ hist[k].post = hist[k].pre

\* C1, as stated: in every sequence of get_driver calls with no intervening
\* close, made one after another on a manager without a driver, the
\* constructor is invoked exactly once, by the first call, and every later
\* call returns the reference the first call returned and leaves the state
\* unchanged.
C1_Original ==
    \A i \in Idx : \A j \in Idx : GetDriverRun(i, j) => OneConstruction(i, j)

\* C1, amended: the same, for the sequences whose first call returns a
\* driver (its construction does not raise).
C1_SingleConstruction ==
    \A i \in Idx : \A j \in Idx :
        (GetDriverRun(i, j) /\ hist[i].outcome = "returned") => OneConstruction(i, j)

C1_Witness ==
    \E i \in Idx : \E j \in Idx :
        /\ j >= i + 2
        /\ GetDriverRun(i, j)
        /\ hist[i].outcome = "returned"

\* C2, as stated: when the quit raises during close on a manager with a
\* driver, the stored reference has been cleared when close returns.
C2_Original ==
    \A i \in Idx :
        (hist[i].op = "close" /\ hist[i].pre # None /\ hist[i].quitRes = "raise")
            => hist[i].post = None

\* C3: close never propagates an error: whatever the state and whatever the
\* quit raised, close returns normally, the failure caught and logged.
C3_CloseNeverRaises ==
    \A i \in Idx :
        hist[i].op = "close" =>
            /\ hist[i].outcome = "returned"
            /\ hist[i].quitRes = "raise" =>
                   hist[i].logs = {"Failed to close browser properly"}

C3_Witness ==
    \E i \in Idx :
        /\ hist[i].op = "close"
        /\ hist[i].quitRes = "raise"
        /\ hist[i].outcome = "returned"

\* C4: close on a manager with a driver whose quit succeeds invokes quit
\* exactly once, on the stored driver, and leaves no driver stored when it
\* returns.
C4_CloseShutsDownOnce ==
    \A i \in Idx :
        (hist[i].op = "close" /\ hist[i].pre # None /\ hist[i].quitRes = "ok") =>
            /\ hist[i].quit = 1
            /\ hist[i].quitOn = hist[i].pre
            /\ hist[i].post = None
            /\ hist[i].outcome = "returned"

C4_Witness ==
    \E i \in Idx :
        /\ hist[i].op = "close"
        /\ hist[i].pre # None
        /\ hist[i].quitRes = "ok"
        /\ hist[i].post = None

\* C5: close on a manager with no driver is a no-op: no quit, no error, still
\* no driver; so the closes that follow a successful close change nothing.
C5_CloseNoDriverNoOp ==
    /\ \A i \in Idx :
         (hist[i].op = "close" /\ hist[i].pre = None) =>
             /\ hist[i].quit = 0
             /\ hist[i].ctor = 0
             /\ hist[i].outcome = "returned"
             /\ hist[i].post = None
    /\ \A i \in Idx : \A j \in Idx :
         (/\ i < j
          /\ hist[i].op = "close"
          /\ hist[i].post = None
          /\ \A k \in (i + 1)..j : hist[k].op = "close") =>
             \A k \in (i + 1)..j :
                 /\ hist[k].quit = 0
                 /\ hist[k].pre = None
                 /\ hist[k].post = None
                 /\ hist[k].outcome = "returned"

C5_Witness ==
    \E i \in Idx :
        /\ i + 2 <= Len(hist)
        /\ hist[i].op = "close"
        /\ hist[i].pre # None
        /\ hist[i].post = None
        /\ hist[i + 1].op = "close"
        /\ hist[i + 2].op = "close"

\* C6, as stated: after any sequence of get_driver, new_context and close
\* made one after another, at most one driver is constructed and not shut
\* down, and the stored reference is absent or refers to it.
C6_Original ==
    Quiescent =>
        /\ Cardinality(Live) <= 1
        /\ driver = None \/ Live = {driver}

\* C7, as stated: when the finalizer runs on a manager with a driver and no
\* event loop is running, the driver's quit has been invoked before the
\* finalizer returns.
C7_Original ==
    \A i \in Idx :
        (hist[i].op = "__del__" /\ hist[i].pre # None /\ hist[i].loop = "none") =>
            /\ hist[i].quit = 1
            /\ hist[i].quitOn = hist[i].pre

\* hist[i] is a close that returned leaving no driver and hist[i+1] is the
\* get_driver call that follows it.
CloseThenGetDriver(i) ==
    /\ i + 1 <= Len(hist)
    /\ hist[i].op = "close"
    /\ hist[i].outcome = "returned"
    /\ hist[i].post = None
    /\ hist[i + 1].op = "get_driver"

\* The get_driver call hist[i] left the manager holding a driver that no
\* earlier call returned or shut down, and returned it.
HoldsNewDriver(i) ==
    /\ hist[i].post # None
    /\ hist[i].post = hist[i].value
    /\ hist[i].outcome = "returned"
    /\ \A k \in 1..(i - 1) :
         /\ hist[k].value # hist[i].value
         /\ hist[k].quitOn # hist[i].value
         /\ hist[k].pre # hist[i].value

\* C8, as stated: after a close that returned with no driver stored, the
\* next get_driver call invokes the constructor again and leaves the manager
\* holding the newly constructed driver.
C8_Original ==
    \A i \in Idx :
        CloseThenGetDriver(i) => (hist[i + 1].ctor = 1 /\ HoldsNewDriver(i + 1))

\* C8, amended: the next get_driver call invokes the constructor again and,
\* when the constructor returns, leaves the manager holding the newly
\* constructed driver, never the closed one.
C8_RecreateAfterClose ==
    \A i \in Idx :
        CloseThenGetDriver(i) =>
            /\ hist[i + 1].ctor = 1
            /\ hist[i + 1].ctorRes = "ok" => HoldsNewDriver(i + 1)

C8_Witness ==
    \E i \in Idx :
        /\ CloseThenGetDriver(i)
        /\ hist[i].pre # None
        /\ hist[i + 1].ctorRes = "ok"
        /\ driver = hist[i + 1].value

\* C9: when the constructor raises during get_driver on a manager with no
\* driver, the error reaches the caller, no reference is stored, and the
\* get_driver call that follows attempts the construction again.
C9_ConstructionFailurePropagates ==
    \A i \in Idx :
        (hist[i].op = "get_driver" /\ hist[i].pre = None /\ hist[i].ctorRes = "raise") =>
            /\ hist[i].outcome = "raised"
            /\ hist[i].value = None
            /\ hist[i].post = None
            /\ (i + 1 <= Len(hist) /\ hist[i + 1].op = "get_driver") =>
                   hist[i + 1].ctor = 1

C9_Witness ==
    \E i \in Idx :
        /\ i + 1 <= Len(hist)
        /\ hist[i].op = "get_driver"
        /\ hist[i].ctorRes = "raise"
        /\ hist[i].outcome = "raised"
        /\ hist[i + 1].op = "get_driver"
        /\ hist[i + 1].ctorRes = "ok"

\* C10: the finalizer never raises: with or without a driver, with or without
\* a running event loop, it returns normally, a failure of the cleanup caught
\* and logged.
C10_DelNeverRaises ==
    \A i \in Idx :
        hist[i].op = "__del__" =>
            /\ hist[i].outcome = "returned"
            /\ (hist[i].pre # None /\ hist[i].loop = "none") =>
                   hist[i].logs = {"Failed to cleanup browser in destructor"}

C10_Witness ==
    \E i \in Idx :
        /\ hist[i].op = "__del__"
        /\ hist[i].pre # None
        /\ hist[i].loop = "none"
        /\ hist[i].logs # {}
        /\ hist[i].outcome = "returned"

\* The records of the calls made: those that returned and those in progress.
Entries == {hist[i] : i \in Idx} \cup {cur[t] : t \in {u \in Tasks : cur[u].op # "none"}}

\* The task's blocking driver call is running or about to run.
JobRunning(t) == pc[t] \in {"await_create", "constructed", "await_quit"}

\* C11: every blocking driver operation (construction, shutdown) of every
\* path, the close scheduled by the finalizer included, runs on a worker
\* thread and never on the event loop's thread; while it runs the calling
\* task is suspended and the other tasks can take steps.
C11_BlockingCallsOffLoop ==
    /\ \A e \in Entries :
         /\ e.ctor > 0 => e.ctorThread = "worker"
         /\ e.quit > 0 => e.quitThread = "worker"
    /\ \A t \in Tasks :
         JobRunning(t) =>
            /\ job[t].thread = "worker"
            /\ \A u \in Callers :
                 (FirstFree(u) /\ ~deleted) =>
                     /\ ENABLED CallGetDriver(u)
                     /\ ENABLED CallClose(u)
            /\ \A u \in Tasks : pc[u] = "create_done" => ENABLED ResumeCreate(u)
            /\ \A u \in Tasks : pc[u] = "quit_done" => ENABLED ResumeClose(u)

C11_Witness ==
    \E t \in Callers : \E u \in Callers :
        /\ t # u
        /\ pc[t] = "await_quit"
        /\ pc[u] = "create_done"
        /\ cur[u].ctorThread = "worker"

\* Two get_driver calls were made, both with no driver stored, and both
\* constructions succeeded: the calls overlapped.
RacingGetDrivers ==
    /\ Quiescent
    /\ Len(hist) = 2
    /\ \A i \in {1, 2} :
         /\ hist[i].op = "get_driver"
         /\ hist[i].pre = None
         /\ hist[i].ctorRes = "ok"

C13_FinalizerSchedulesClose ==
    \A i \in Idx :
        hist[i].op = "__del__" =>
            /\ hist[i].quit = 0
            /\ hist[i].post = hist[i].pre
            /\ (hist[i].pre # None /\ hist[i].loop = "running") =>
                   /\ hist[i].sched = 1
                   /\ hist[i].outcome = "returned"
                   /\ i = Len(hist) => pc[BG] # "idle"
                   /\ (i = Len(hist) /\ pc[BG] = "scheduled") =>
                          quitCalls[hist[i].pre] =
                              Cardinality({k \in 1..i : hist[k].quitOn = hist[i].pre})
                   /\ i < Len(hist) =>
                          /\ Len(hist) = i + 1
                          /\ hist[i + 1].op = "close"
                          /\ pc[BG] = "idle"
            /\ hist[i].pre = None =>
                   /\ hist[i].sched = 0
                   /\ pc[BG] = "idle"
                   /\ i = Len(hist)

C13_Witness ==
    \E i \in Idx :
        /\ hist[i].op = "__del__"
        /\ hist[i].pre # None
        /\ hist[i].sched = 1
        /\ Len(hist) = i + 1
        /\ hist[i + 1].quit = 1

OptionKeys ==
    {"headless", "disable_security", "extra_chromium_args", "chrome_instance_path",
     "proxy"}

\* C14: every construction passes one options mapping, with exactly the keys
\* headless, disable_security, extra_chromium_args, chrome_instance_path and
\* proxy, each bound to the value of the same field of the configuration.
C14_OptionsFromConfig ==
    \A e \in Entries :
        e.ctor > 0 =>
            /\ Cardinality(e.options) = e.ctor
            /\ \A o \in e.options :
                 /\ DOMAIN o = OptionKeys
                 /\ \A k \in OptionKeys : o[k] = config[k]

C14_Witness ==
    \E i \in Idx :
        /\ hist[i].op = "get_driver"
        /\ hist[i].ctor = 1
        /\ config.headless
        /\ config.proxy # "None"
        /\ \E o \in hist[i].options : o.headless /\ o.proxy = config.proxy
        /\ driver # None

\* C15, as stated: every close runs gc.collect() exactly once before it
\* returns; when a driver was present, after the shutdown attempt and after
\* the reference has been cleared.
C15_Original ==
    \A i \in Idx :
        hist[i].op = "close" =>
            /\ hist[i].gc = 1
            /\ hist[i].pre # None =>
                   /\ hist[i].quit = 1
                   /\ hist[i].gcDriver = {None}

\* The task is inside a get_driver or close call.
InCall(t) == pc[t] \notin {"idle", "scheduled"} /\ cur[t].op \in {"get_driver", "close"}

\* C16: every get_driver call and every close call eventually returns to its
\* caller, the offloaded driver operation having finished normally or by
\* raising.
C16_CallsReturn == \A t \in Tasks : InCall(t) ~> (pc[t] = "idle")

C16_Witness ==
    /\ Quiescent
    /\ Len(hist) = 2
    /\ hist[1].op = "get_driver"
    /\ hist[1].ctorRes = "ok"
    /\ hist[1].outcome = "returned"
    /\ hist[2].op = "close"
    /\ hist[2].quitRes = "raise"
    /\ hist[2].outcome = "returned"

\* Only get_driver and close calls (and the finalizer) were made.
NoNewContext == \A e \in Entries : e.op # "new_context"

\* No call was made while another was in progress.
NeverOverlapped == ~overlapped

\* Drivers constructed by a call in progress and not yet assigned.
Unstored == {job[t].value : t \in {u \in Tasks : pc[u] = "constructed"}}

C18_Original ==
    \A i \in Idx :
        (hist[i].op = "get_driver" /\ hist[i].outcome = "returned") =>
            hist[i].retQuits = 0

====
